---- MODULE Spec2Model ----
(***************************************************************************)
(* File operations facade of the inkfinite desktop shell                   *)
(* (apps/desktop/src-tauri/src/lib.rs): read_directory, rename_file and    *)
(* delete_file over a small file-system tree.                              *)
(*                                                                         *)
(* A string is a sequence of one-character strings; a path is a sequence   *)
(* of names (its components below the root).  The file system maps every   *)
(* path of the universe to a node.                                         *)
(***************************************************************************)
EXTENDS Integers, Sequences, FiniteSets, TLC

(***************************************************************************)
(* Characters and strings                                                  *)
(***************************************************************************)

UpperCase ==
    << "A", "B", "C", "D", "E", "F", "G", "H", "I", "J", "K", "L", "M",
       "N", "O", "P", "Q", "R", "S", "T", "U", "V", "W", "X", "Y", "Z" >>

LowerCase ==
    << "a", "b", "c", "d", "e", "f", "g", "h", "i", "j", "k", "l", "m",
       "n", "o", "p", "q", "r", "s", "t", "u", "v", "w", "x", "y", "z" >>

\* The characters in use, in increasing byte order (ASCII).
AsciiOrder == << "*", "." >> \o UpperCase \o LowerCase

Ord(c) == CHOOSE i \in DOMAIN AsciiOrder : AsciiOrder[i] = c

\* char::to_lowercase on ASCII: A..Z go to a..z, everything else stays.
LowerChar(c) ==
    IF \E i \in DOMAIN UpperCase : UpperCase[i] = c
    THEN LowerCase[CHOOSE i \in DOMAIN UpperCase : UpperCase[i] = c]
    ELSE c

\* str::to_lowercase
to_lowercase(s) == [i \in 1..Len(s) |-> LowerChar(s[i])]

\* Ord::cmp on strings: byte-wise lexicographic, a proper prefix is Less.
RECURSIVE CmpFrom(_, _, _)
CmpFrom(a, b, i) ==
    IF i > Len(a) /\ i > Len(b) THEN "Equal"
    ELSE IF i > Len(a) THEN "Less"
    ELSE IF i > Len(b) THEN "Greater"
    ELSE IF Ord(a[i]) < Ord(b[i]) THEN "Less"
    ELSE IF Ord(a[i]) > Ord(b[i]) THEN "Greater"
    ELSE CmpFrom(a, b, i + 1)

cmp(a, b) == CmpFrom(a, b, 1)

\* str::ends_with
ends_with(s, suffix) ==
    /\ Len(suffix) <= Len(s)
    /\ SubSeq(s, Len(s) - Len(suffix) + 1, Len(s)) = suffix

\* str::contains with a string needle
contains(s, needle) ==
    \E i \in 1..(Len(s) + 1) :
        /\ i + Len(needle) - 1 <= Len(s)
        /\ SubSeq(s, i, i + Len(needle) - 1) = needle

\* pattern.contains('*')
contains_star(p) == \E i \in 1..Len(p) : p[i] = "*"

\* pattern.replace('*', "")
RECURSIVE StripFrom(_, _)
StripFrom(p, i) ==
    IF i > Len(p) THEN << >>
    ELSE IF p[i] = "*" THEN StripFrom(p, i + 1)
    ELSE << p[i] >> \o StripFrom(p, i + 1)

replace_star(p) == StripFrom(p, 1)

\* The default of unwrap_or_else: "*.inkfinite.json"
DefaultPattern ==
    << "*", ".", "i", "n", "k", "f", "i", "n", "i", "t", "e",
       ".", "j", "s", "o", "n" >>

\* Option<String>: None, or Some(s) written << s >>.
None == << >>
Some(s) == << s >>
unwrap_or_default(pattern) ==
    IF pattern = None THEN DefaultPattern ELSE pattern[1]

\* Mutant: a pattern without a star is looked for anywhere in the name.
PatternKeeps_AlwaysContains(name, pattern) ==
    IF contains_star(pattern)
    THEN contains(name, replace_star(pattern))
    ELSE contains(name, pattern)

\* Mutant: the name is compared without regard to case.
PatternKeeps_IgnoreCase(name, pattern) ==
    IF contains_star(pattern)
    THEN contains(to_lowercase(name), to_lowercase(replace_star(pattern)))
    ELSE ends_with(to_lowercase(name), to_lowercase(pattern))

\* The filter of a regular file (lines 38-45): TRUE when the loop does not
\* `continue`.
PatternKeeps(name, pattern) ==
    IF contains_star(pattern)
    THEN contains(name, replace_star(pattern))
    ELSE ends_with(name, pattern)

(***************************************************************************)
(* The file system                                                         *)
(***************************************************************************)

Str_ws == << "w", "s" >>
Str_tmp == << "t", "m", "p" >>
Str_sub == << "s", "u", "b" >>
Str_inkfinite_json ==
    << "i", "n", "k", "f", "i", "n", "i", "t", "e", ".", "j", "s", "o", "n" >>
Str_a_txt == << "a", ".", "t", "x", "t" >>
Str_B_UPPER ==
    << "B", ".", "I", "N", "K", "F", "I", "N", "I", "T", "E",
       ".", "J", "S", "O", "N" >>
Str_c_ink ==
    << "c", ".", "i", "n", "k", "f", "i", "n", "i", "t", "e",
       ".", "j", "s", "o", "n" >>
Str_c_ink_bak == Str_c_ink \o << ".", "b", "a", "k" >>

\* Names a child of a directory may have, and the two top-level names.
ChildNames ==
    { Str_sub, Str_a_txt, Str_B_UPPER, Str_c_ink, Str_c_ink_bak,
      Str_inkfinite_json }
TopNames == { Str_ws, Str_tmp }

\* The path universe: top-level paths and their immediate children.
Paths ==
    { << t >> : t \in TopNames } \cup
    { << t, n >> : t \in TopNames, n \in ChildNames }

Parent(p) == SubSeq(p, 1, Len(p) - 1)
file_name(p) == p[Len(p)]
\* Path::join
join(d, n) == Append(d, n)

\* A node: what lstat reports of a path.  `content` is the data of a
\* regular file; `link` says what a symbolic link resolves to ("none" when
\* it dangles).  Links of the model never resolve to a directory.
Absent == [kind |-> "absent", content |-> << >>, link |-> "none"]
Dir == [kind |-> "dir", content |-> << >>, link |-> "none"]
File(c) == [kind |-> "file", content |-> c, link |-> "none"]
Symlink(l) == [kind |-> "symlink", content |-> << >>, link |-> l]

\* Path::exists follows symbolic links: a dangling link does not exist.
exists(f, p) ==
    \/ f[p].kind \in {"file", "dir"}
    \/ f[p].kind = "symlink" /\ f[p].link # "none"

\* Path::is_dir follows symbolic links.
is_dir(f, p) == f[p].kind = "dir"

\* The names fs::read_dir yields for a directory.
Children(f, d) ==
    { n \in ChildNames : join(d, n) \in Paths /\ f[join(d, n)].kind # "absent" }

IsUnder(q, d) == Len(q) > Len(d) /\ SubSeq(q, 1, Len(d)) = d

\* Result<_, String>: the error is the text the message starts with.
Ok(v) == [ok |-> TRUE, err |-> "", entries |-> v]
Err(m) == [ok |-> FALSE, err |-> m, entries |-> << >>]

\* The error classes of the messages.
ErrClass(m) ==
    CASE m \in {"Directory does not exist", "Source file does not exist",
                "File does not exist"} -> "NotFound"
      [] m = "Path is not a directory" -> "NotADirectory"
      [] m = "Path is a directory, not a file" -> "IsADirectory"
      [] m \in {"Failed to read directory", "Failed to read entry",
                "Failed to read metadata", "Failed to rename file",
                "Failed to delete file"} -> "IOFailure"
      [] OTHER -> "Success"

ResultClass(r) == IF r.ok THEN "Success" ELSE ErrClass(r.err)

(***************************************************************************)
(* read_directory                                                          *)
(***************************************************************************)

FileEntry(path, name, isdir) == [path |-> path, name |-> name, is_dir |-> isdir]

\* Mutant: the names are compared as they are, not lowercased.
EntryCmp_NoLowercase(a, b) ==
    IF a.is_dir = b.is_dir THEN cmp(a.name, b.name)
    ELSE IF a.is_dir THEN "Less"
    ELSE "Greater"

\* The comparator handed to sort_by (lines 56-64).
EntryCmp(a, b) ==
    IF a.is_dir = b.is_dir THEN cmp(to_lowercase(a.name), to_lowercase(b.name))
    ELSE IF a.is_dir THEN "Less"
    ELSE "Greater"

\* slice::sort_by is a stable sort: an entry goes after every entry that
\* does not compare Greater than it.
RECURSIVE InsertSorted(_, _)
InsertSorted(sorted, e) ==
    IF sorted = << >> THEN << e >>
    ELSE IF EntryCmp(sorted[Len(sorted)], e) = "Greater"
         THEN Append(InsertSorted(SubSeq(sorted, 1, Len(sorted) - 1), e),
                     sorted[Len(sorted)])
         ELSE Append(sorted, e)

RECURSIVE SortFrom(_, _, _)
SortFrom(v, i, acc) ==
    IF i > Len(v) THEN acc ELSE SortFrom(v, i + 1, InsertSorted(acc, v[i]))

sort_by(v) == SortFrom(v, 1, << >>)

\* What the environment does to one call of read_directory of n entries:
\* nothing, a failure of fs::read_dir, a failure of the at-th request to the
\* directory stream (the loop makes n + 1 of them, the last one to learn
\* that the stream has ended), or a failure of the metadata of the at-th
\* entry.
NoFault == [at |-> 0, what |-> "none"]
ReadDirFault == [at |-> 0, what |-> "read_dir"]
Faults(n) ==
    {NoFault, ReadDirFault} \cup
    { [at |-> i, what |-> "entry"] : i \in 1..(n + 1) } \cup
    { [at |-> i, what |-> "metadata"] : i \in 1..n }

\* The enumeration orders fs::read_dir may produce for a set of names.
Orders(S) ==
    { o \in [1..Cardinality(S) -> S] :
        \A i, j \in 1..Cardinality(S) : i # j => o[i] # o[j] }

\* Mutant: the pattern filters every entry, directories included.
RECURSIVE ReadLoop_FiltersAll(_, _, _, _, _, _, _)
ReadLoop_FiltersAll(f, directory, entries, pattern, fault, i, results) ==
    IF fault.at = i /\ fault.what = "entry" THEN Err("Failed to read entry")
    ELSE IF i > Len(entries) THEN Ok(results)
    ELSE IF fault.at = i /\ fault.what = "metadata"
         THEN Err("Failed to read metadata")
    ELSE LET name == entries[i]
             entry_path == join(directory, name)
             metadata == f[entry_path]
         IN  IF ~PatternKeeps(name, pattern)
             THEN ReadLoop_FiltersAll(f, directory, entries, pattern, fault,
                                      i + 1, results)
             ELSE ReadLoop_FiltersAll(f, directory, entries, pattern, fault, i + 1,
                           Append(results,
                                  FileEntry(entry_path, name, metadata.kind = "dir")))

\* Mutant: an entry that cannot be read is skipped instead of ending the call.
RECURSIVE ReadLoop_SkipsFailures(_, _, _, _, _, _, _)
ReadLoop_SkipsFailures(f, directory, entries, pattern, fault, i, results) ==
    IF i > Len(entries) THEN Ok(results)
    ELSE IF fault.at = i /\ fault.what \in {"entry", "metadata"}
         THEN ReadLoop_SkipsFailures(f, directory, entries, pattern, fault,
                                     i + 1, results)
    ELSE LET name == entries[i]
             entry_path == join(directory, name)
             metadata == f[entry_path]
         IN  IF metadata.kind = "file" /\ ~PatternKeeps(name, pattern)
             THEN ReadLoop_SkipsFailures(f, directory, entries, pattern, fault,
                                         i + 1, results)
             ELSE ReadLoop_SkipsFailures(f, directory, entries, pattern, fault,
                           i + 1,
                           Append(results,
                                  FileEntry(entry_path, name, metadata.kind = "dir")))

\* The loop of lines 28-53 from the i-th request to the directory stream on:
\* the request may fail (line 29), report the end of the stream, or yield
\* the i-th entry.
RECURSIVE ReadLoop(_, _, _, _, _, _, _)
ReadLoop(f, directory, entries, pattern, fault, i, results) ==
    IF fault.at = i /\ fault.what = "entry" THEN Err("Failed to read entry")
    ELSE IF i > Len(entries) THEN Ok(results)
    ELSE IF fault.at = i /\ fault.what = "metadata"
         THEN Err("Failed to read metadata")
    ELSE LET name == entries[i]
             entry_path == join(directory, name)
             metadata == f[entry_path]
         IN  IF metadata.kind = "file" /\ ~PatternKeeps(name, pattern)
             THEN ReadLoop(f, directory, entries, pattern, fault, i + 1, results)
             ELSE ReadLoop(f, directory, entries, pattern, fault, i + 1,
                           Append(results,
                                  FileEntry(entry_path, name, metadata.kind = "dir")))

\* Mutant: the directory check comes before the existence check.
read_directory_ChecksSwapped(f, directory, pattern, entries, fault) ==
    IF ~is_dir(f, directory) THEN Err("Path is not a directory")
    ELSE IF ~exists(f, directory) THEN Err("Directory does not exist")
    ELSE IF fault.what = "read_dir" THEN Err("Failed to read directory")
    ELSE LET r == ReadLoop(f, directory, entries, unwrap_or_default(pattern),
                           fault, 1, << >>)
         IN  IF r.ok THEN Ok(sort_by(r.entries)) ELSE r

\* read_directory(directory, pattern), the directory enumerated as `entries`.
read_directory(f, directory, pattern, entries, fault) ==
    IF ~exists(f, directory) THEN Err("Directory does not exist")
    ELSE IF ~is_dir(f, directory) THEN Err("Path is not a directory")
    ELSE IF fault.what = "read_dir" THEN Err("Failed to read directory")
    ELSE LET r == ReadLoop(f, directory, entries, unwrap_or_default(pattern),
                           fault, 1, << >>)
         IN  IF r.ok THEN Ok(sort_by(r.entries)) ELSE r

(***************************************************************************)
(* rename_file and delete_file                                             *)
(***************************************************************************)

\* The tree after the entry `old` (with what is under it) has moved to `new`.
Moved(f, old, new) ==
    [q \in Paths |->
        IF q = new THEN f[old]
        ELSE IF IsUnder(q, new)
             THEN LET src == old \o SubSeq(q, Len(new) + 1, Len(q))
                  IN  IF src \in Paths THEN f[src] ELSE Absent
        ELSE IF q = old \/ IsUnder(q, old) THEN Absent
        ELSE f[q]]

ParentIsDir(f, p) == Len(p) = 1 \/ f[Parent(p)].kind = "dir"

\* fs::rename, the rename(2) of the platform: [ok, fs].  `io` is a failure
\* of the environment (permissions, another device).
sys_rename(f, old, new, io) ==
    LET fail == [ok |-> FALSE, fs |-> f]
        done(g) == [ok |-> TRUE, fs |-> g]
    IN  IF io THEN fail
        ELSE IF f[old].kind = "absent" THEN fail
        ELSE IF ~ParentIsDir(f, new) THEN fail
        ELSE IF old = new THEN done(f)
        ELSE IF f[old].kind = "dir"
             THEN IF IsUnder(new, old) THEN fail
                  ELSE IF f[new].kind = "absent" THEN done(Moved(f, old, new))
                  ELSE IF f[new].kind = "dir" /\ Children(f, new) = {}
                       THEN done(Moved(f, old, new))
                  ELSE fail
        ELSE IF f[new].kind = "dir" THEN fail
        ELSE done(Moved(f, old, new))

\* fs::remove_file, the unlink(2) of the platform: [ok, fs].
sys_remove_file(f, p, io) ==
    IF io \/ f[p].kind \in {"absent", "dir"}
    THEN [ok |-> FALSE, fs |-> f]
    ELSE [ok |-> TRUE, fs |-> [f EXCEPT ![p] = Absent]]

\* Lines 79-81: the rename and the mapping of its error.
rename_step(f, old_path, new_path, io) ==
    LET r == sys_rename(f, old_path, new_path, io)
    IN  IF r.ok THEN [result |-> Ok(<< >>), fs |-> r.fs]
        ELSE [result |-> Err("Failed to rename file"), fs |-> r.fs]

\* Mutant: no existence check before the rename.
rename_file_NoExistsCheck(f, old_path, new_path, io) ==
    rename_step(f, old_path, new_path, io)

\* rename_file(old_path, new_path): [result, fs]
rename_file(f, old_path, new_path, io) ==
    IF ~exists(f, old_path)
    THEN [result |-> Err("Source file does not exist"), fs |-> f]
    ELSE rename_step(f, old_path, new_path, io)

\* Lines 97-99: the removal and the mapping of its error.
remove_step(f, file_path, io) ==
    LET r == sys_remove_file(f, file_path, io)
    IN  IF r.ok THEN [result |-> Ok(<< >>), fs |-> r.fs]
        ELSE [result |-> Err("Failed to delete file"), fs |-> r.fs]

\* Mutant: no directory check before the removal.
delete_file_NoDirCheck(f, file_path, io) ==
    IF ~exists(f, file_path)
    THEN [result |-> Err("File does not exist"), fs |-> f]
    ELSE remove_step(f, file_path, io)

\* delete_file(file_path): [result, fs]
delete_file(f, file_path, io) ==
    IF ~exists(f, file_path)
    THEN [result |-> Err("File does not exist"), fs |-> f]
    ELSE IF is_dir(f, file_path)
    THEN [result |-> Err("Path is a directory, not a file"), fs |-> f]
    ELSE remove_step(f, file_path, io)

(***************************************************************************)
(* One invocation from an arbitrary tree                                   *)
(***************************************************************************)

VARIABLES
    fs,      \* the file system: [Paths -> node]
    start,   \* the file system before any invocation
    call,    \* the invocation made so far: its arguments, what the environment
             \* did to it and its result
    procs    \* the concurrent invocations (DispatchSpec only)

vars == << fs, start, call, procs >>

\* Most children the listed directory starts with.
MaxChildren == 2

ChildKinds == {"absent", "file", "dir", "dangling", "link"}

NodeOf(k, p) ==
    CASE k = "file" -> File(p)
      [] k = "dir" -> Dir
      [] k = "dangling" -> Symlink("none")
      [] k = "link" -> Symlink("file")
      [] OTHER -> Absent

\* The tree with the directory ws, whose children are the names a gives a kind.
\* A regular file holds its first path as content.
Tree(a) ==
    [p \in Paths |->
        IF p = << Str_ws >> THEN Dir
        ELSE IF Len(p) = 2 /\ p[1] = Str_ws THEN NodeOf(a[p[2]], p)
        ELSE Absent]

InitTrees ==
    { Tree(a) : a \in { b \in [ChildNames -> ChildKinds] :
          Cardinality({ n \in ChildNames : b[n] # "absent" }) <= MaxChildren } }

Str_ink_suffix == << "." >> \o Str_inkfinite_json

Patterns ==
    { None,
      Some(DefaultPattern),
      Some(Str_ink_suffix),
      Some(<< "x", "*", "t" >>),
      Some(<< "*" >>) }

NoCall ==
    [op |-> "none", path |-> << >>, new_path |-> << >>, pattern |-> None,
     entries |-> << >>, fault |-> NoFault, result |-> Ok(<< >>)]

NoProcs == << >>

Init ==
    /\ fs \in InitTrees
    /\ start = fs
    /\ call = NoCall
    /\ procs = NoProcs

ReadDirectory ==
    /\ call = NoCall
    /\ \E directory \in Paths, pattern \in Patterns :
         \E entries \in Orders(Children(fs, directory)) :
           \E fault \in Faults(Len(entries)) :
             call' = [op |-> "read_directory", path |-> directory,
                      new_path |-> << >>, pattern |-> pattern,
                      entries |-> entries, fault |-> fault,
                      result |-> read_directory(fs, directory, pattern,
                                                entries, fault)]
    /\ UNCHANGED << fs, start, procs >>

RenameFile ==
    /\ call = NoCall
    /\ \E old_path \in Paths, new_path \in Paths, io \in BOOLEAN :
         LET r == rename_file(fs, old_path, new_path, io)
         IN  /\ fs' = r.fs
             /\ call' = [op |-> "rename_file", path |-> old_path,
                         new_path |-> new_path, pattern |-> None,
                         entries |-> << >>,
                         fault |-> [at |-> 0, what |-> IF io THEN "io" ELSE "none"],
                         result |-> r.result]
    /\ UNCHANGED << start, procs >>

DeleteFile ==
    /\ call = NoCall
    /\ \E file_path \in Paths, io \in BOOLEAN :
         LET r == delete_file(fs, file_path, io)
         IN  /\ fs' = r.fs
             /\ call' = [op |-> "delete_file", path |-> file_path,
                         new_path |-> << >>, pattern |-> None,
                         entries |-> << >>,
                         fault |-> [at |-> 0, what |-> IF io THEN "io" ELSE "none"],
                         result |-> r.result]
    /\ UNCHANGED << start, procs >>

Next == ReadDirectory \/ RenameFile \/ DeleteFile

Spec == Init /\ [][Next]_vars

(***************************************************************************)
(* Two invocations on one path, requested at the same time                 *)
(*                                                                         *)
(* rename_file and delete_file are declared `fn`, not `async fn` (lines    *)
(* 71 and 86): the command handler runs such a command on the main thread, *)
(* from its first statement to its return, before it takes the next        *)
(* request.  Two requests made at the same time are both pending and are   *)
(* run in either order.  Within an invocation every call of Path::exists,  *)
(* Path::is_dir, fs::rename and fs::remove_file is one step.  The          *)
(* environment adds no failure of its own here.                            *)
(***************************************************************************)

ConcPaths ==
    { << Str_ws >>, << Str_tmp >>, << Str_ws, Str_sub >>, << Str_ws, Str_a_txt >> }

ConcTrees ==
    { t \in InitTrees : \A p \in Paths \ ConcPaths : t[p].kind = "absent" }

Proc(op, path, new_path) ==
    [op |-> op, path |-> path, new_path |-> new_path, pc |-> "start",
     result |-> Ok(<< >>)]

ConcCalls(p) ==
    { Proc("delete_file", p, << >>) } \cup
    { Proc("rename_file", p, q) : q \in ConcPaths }

\* Both invocations are pending (pc = "start").
QueuedInit ==
    /\ fs \in ConcTrees
    /\ start = fs
    /\ call = NoCall
    /\ \E p \in ConcPaths :
         procs \in { << a, b >> : a \in ConcCalls(p), b \in ConcCalls(p) }

\* Mutant: the commands are declared async and run on a pool of threads, so
\* an invocation may start while the other is between two of its statements.
MainThreadFree_Async(ps, i) == TRUE

\* The main thread can take invocation i: it is inside no other invocation.
MainThreadFree(ps, i) ==
    \A j \in DOMAIN ps : j # i => ps[j].pc \in {"start", "done"}

Finish(i, r) == procs' = [procs EXCEPT ![i].pc = "done", ![i].result = r]
Goto(i, pc) == procs' = [procs EXCEPT ![i].pc = pc]

\* Lines 71-77: the invocation is taken and old.exists() tested.
RenameCheckExists(i) ==
    /\ procs[i].op = "rename_file" /\ procs[i].pc = "start"
    /\ MainThreadFree(procs, i)
    /\ IF ~exists(fs, procs[i].path)
       THEN Finish(i, Err("Source file does not exist"))
       ELSE Goto(i, "rename")
    /\ UNCHANGED << fs, start, call >>

\* Lines 79-81
RenameRename(i) ==
    /\ procs[i].op = "rename_file" /\ procs[i].pc = "rename"
    /\ LET r == rename_step(fs, procs[i].path, procs[i].new_path, FALSE)
       IN  fs' = r.fs /\ Finish(i, r.result)
    /\ UNCHANGED << start, call >>

\* Lines 86-91: the invocation is taken and path.exists() tested.
DeleteCheckExists(i) ==
    /\ procs[i].op = "delete_file" /\ procs[i].pc = "start"
    /\ MainThreadFree(procs, i)
    /\ IF ~exists(fs, procs[i].path)
       THEN Finish(i, Err("File does not exist"))
       ELSE Goto(i, "check_dir")
    /\ UNCHANGED << fs, start, call >>

\* Line 93
DeleteCheckIsDir(i) ==
    /\ procs[i].op = "delete_file" /\ procs[i].pc = "check_dir"
    /\ IF is_dir(fs, procs[i].path)
       THEN Finish(i, Err("Path is a directory, not a file"))
       ELSE Goto(i, "remove")
    /\ UNCHANGED << fs, start, call >>

\* Lines 97-99
DeleteRemove(i) ==
    /\ procs[i].op = "delete_file" /\ procs[i].pc = "remove"
    /\ LET r == remove_step(fs, procs[i].path, FALSE)
       IN  fs' = r.fs /\ Finish(i, r.result)
    /\ UNCHANGED << start, call >>

DispatchNext ==
    \E i \in 1..2 :
      \/ RenameCheckExists(i)
      \/ RenameRename(i)
      \/ DeleteCheckExists(i)
      \/ DeleteCheckIsDir(i)
      \/ DeleteRemove(i)

DispatchSpec == QueuedInit /\ [][DispatchNext]_vars

(***************************************************************************)
(* Properties of one invocation                                            *)
(***************************************************************************)

\* Vocabulary of the properties, stated without the operators of the code.
Range(q) == { q[i] : i \in DOMAIN q }
NamesOf(es) == { es[i].name : i \in DOMAIN es }
OccursAt(s, needle, i) ==
    /\ i + Len(needle) <= Len(s)
    /\ \A k \in 1..Len(needle) : s[i + k] = needle[k]
HasSubstring(s, needle) == \E i \in 0..Len(s) : OccursAt(s, needle, i)
HasSuffix(s, suffix) ==
    Len(suffix) <= Len(s) /\ OccursAt(s, suffix, Len(s) - Len(suffix))
WithoutStars(p) == SelectSeq(p, LAMBDA c : c # "*")
Str_star_ink == << "*", "." >> \o Str_inkfinite_json
\* The pattern rule of the specification; an absent pattern is "*.inkfinite.json".
Matches(name, pattern) ==
    LET p == IF pattern = None THEN Str_star_ink ELSE pattern[1]
    IN  IF "*" \in Range(p) THEN HasSubstring(name, WithoutStars(p))
        ELSE HasSuffix(name, p)
\* a <= b in byte-wise lexicographic order
LexLeq(a, b) ==
    \/ Len(a) <= Len(b) /\ \A k \in 1..Len(a) : a[k] = b[k]
    \/ \E k \in 1..Len(a) :
         /\ k <= Len(b)
         /\ \A m \in 1..(k - 1) : a[m] = b[m]
         /\ Ord(a[k]) < Ord(b[k])

\* Directories first, each group non-decreasing by lowercased name.
Ordered(es) ==
    \A i, j \in DOMAIN es :
      i < j =>
        /\ es[j].is_dir => es[i].is_dir
        /\ es[i].is_dir = es[j].is_dir =>
             LexLeq(to_lowercase(es[i].name), to_lowercase(es[j].name))

Listed == call.op = "read_directory" /\ call.result.ok
KindBefore(p) == start[p].kind
ChildKindBefore(n) ==
    IF join(call.path, n) \in Paths THEN start[join(call.path, n)].kind
    ELSE "absent"
ChildrenBefore == Children(start, call.path)

\* C1: a successful read_directory returns every directory entry before
\* every other entry, and within each of the two groups the names are
\* non-decreasing when compared after lowercasing.
C1_SortedListing == Listed => Ordered(call.result.entries)

\* Two entries of one group whose byte order is the reverse of their order
\* after lowercasing, enumerated in byte order.
C1_Witness ==
    /\ Listed
    /\ Len(call.result.entries) = 2
    /\ call.result.entries[1].is_dir = call.result.entries[2].is_dir
    /\ ~LexLeq(call.result.entries[1].name, call.result.entries[2].name)
    /\ call.entries[1] = call.result.entries[2].name

\* C2: a regular file of the listed directory is returned exactly when its
\* name contains the pattern without its stars (pattern with a star) or ends
\* with the pattern (pattern without a star); an absent pattern gives the
\* result of "*.inkfinite.json".
C2_FileFilter ==
    Listed =>
      /\ \A n \in ChildrenBefore :
           ChildKindBefore(n) = "file" =>
             (n \in NamesOf(call.result.entries) <=> Matches(n, call.pattern))
      /\ call.pattern = None =>
           call.result = read_directory(start, call.path, Some(Str_star_ink),
                                        call.entries, call.fault)

\* A pattern without a star drops a file that contains it and keeps the
\* file that ends with it.
C2_Witness ==
    /\ Listed
    /\ call.pattern = Some(Str_ink_suffix)
    /\ ChildKindBefore(Str_c_ink_bak) = "file"
    /\ ChildKindBefore(Str_c_ink) = "file"
    /\ NamesOf(call.result.entries) = {Str_c_ink}

\* C3: whatever the pattern, a successful read_directory returns an entry
\* with is_dir = TRUE for every child that is a directory.
C3_DirectoriesKept ==
    Listed =>
      \A n \in ChildrenBefore :
        ChildKindBefore(n) = "dir" =>
          \E i \in DOMAIN call.result.entries :
            call.result.entries[i] = FileEntry(join(call.path, n), n, TRUE)

\* A directory whose name the pattern does not match is returned.
C3_Witness ==
    /\ Listed
    /\ ChildKindBefore(Str_sub) = "dir"
    /\ ~Matches(Str_sub, call.pattern)
    /\ Str_sub \in NamesOf(call.result.entries)

OnlyFilesAndDirs == \A n \in ChildrenBefore : ChildKindBefore(n) \in {"file", "dir"}
DirsFirst(es) == \A i, j \in DOMAIN es : i < j /\ es[j].is_dir => es[i].is_dir
DirNames(es) == { es[i].name : i \in { k \in DOMAIN es : es[k].is_dir } }
FileNames(es) == { es[i].name : i \in { k \in DOMAIN es : ~es[k].is_dir } }

\* C4 as stated: with "*.inkfinite.json", a directory of regular files and
\* subdirectories yields the subdirectories first and then exactly the files
\* whose name contains "inkfinite.json".
C4_Original ==
    Listed /\ call.pattern = Some(Str_star_ink) /\ OnlyFilesAndDirs =>
      LET es == call.result.entries
      IN  /\ DirsFirst(es)
          /\ DirNames(es) = { n \in ChildrenBefore : ChildKindBefore(n) = "dir" }
          /\ FileNames(es) =
               { n \in ChildrenBefore :
                   ChildKindBefore(n) = "file" /\ HasSubstring(n, Str_inkfinite_json) }

\* C4 amended: ... and then exactly the files whose name contains
\* ".inkfinite.json" (the pattern without its star, the dot included),
\* compared case-sensitively.
C4_DefaultPatternListing ==
    Listed /\ call.pattern = Some(Str_star_ink) /\ OnlyFilesAndDirs =>
      LET es == call.result.entries
      IN  /\ DirsFirst(es)
          /\ DirNames(es) = { n \in ChildrenBefore : ChildKindBefore(n) = "dir" }
          /\ FileNames(es) =
               { n \in ChildrenBefore :
                   ChildKindBefore(n) = "file" /\ HasSubstring(n, Str_ink_suffix) }

\* The upper-case file is left out and the lower-case one returned.
C4_Witness ==
    /\ Listed /\ call.pattern = Some(Str_star_ink) /\ OnlyFilesAndDirs
    /\ ChildKindBefore(Str_B_UPPER) = "file"
    /\ ChildKindBefore(Str_c_ink) = "file"
    /\ NamesOf(call.result.entries) = {Str_c_ink}

Renamed == call.op = "rename_file"
SubtreeMoved ==
    \A n \in ChildNames :
      join(call.path, n) \in Paths /\ join(call.new_path, n) \in Paths =>
        fs[join(call.new_path, n)] = start[join(call.path, n)]

\* C5 as stated: rename_file fails with NotFound and changes nothing when
\* old does not exist; whenever it succeeds, old no longer exists and new
\* holds what old held.
C5_Original ==
    Renamed =>
      /\ KindBefore(call.path) = "absent" =>
           ResultClass(call.result) = "NotFound" /\ fs = start
      /\ call.result.ok =>
           /\ fs[call.path].kind = "absent"
           /\ fs[call.new_path] = start[call.path]

\* C5 amended: ... whenever it succeeds on two paths that do not name the
\* same file, old no longer exists and new holds what old held.
C5_Rename ==
    Renamed =>
      /\ KindBefore(call.path) = "absent" =>
           ResultClass(call.result) = "NotFound" /\ fs = start
      /\ call.result.ok /\ call.path # call.new_path =>
           /\ fs[call.path].kind = "absent"
           /\ fs[call.new_path] = start[call.path]
           /\ SubtreeMoved

\* A file renamed over another file.
C5_Witness ==
    /\ Renamed /\ call.result.ok
    /\ call.path # call.new_path
    /\ KindBefore(call.path) = "file"
    /\ KindBefore(call.new_path) = "file"
    /\ fs[call.new_path].content = call.path

Deleted == call.op = "delete_file"

\* C6: delete_file fails with NotFound on a missing path and with
\* IsADirectory on a directory, changing nothing; a successful call on a
\* regular file removes that path and no other.
C6_Delete ==
    Deleted =>
      /\ KindBefore(call.path) = "absent" =>
           ResultClass(call.result) = "NotFound" /\ fs = start
      /\ KindBefore(call.path) = "dir" =>
           ResultClass(call.result) = "IsADirectory" /\ fs = start
      /\ KindBefore(call.path) = "file" /\ call.result.ok =>
           /\ fs[call.path].kind = "absent"
           /\ \A q \in Paths \ {call.path} : fs[q] = start[q]

\* A non-empty directory refused, its children still there.
C6_Witness ==
    /\ Deleted
    /\ KindBefore(call.path) = "dir"
    /\ ResultClass(call.result) = "IsADirectory"
    /\ Children(fs, call.path) # {}

\* C7: read_directory fails with NotFound on a missing path and with
\* NotADirectory on a regular file, never NotADirectory on a missing path,
\* and returns no entries in either case.
C7_ReadPreconditions ==
    call.op = "read_directory" =>
      /\ KindBefore(call.path) = "absent" =>
           ResultClass(call.result) = "NotFound" /\ call.result.entries = << >>
      /\ KindBefore(call.path) = "file" =>
           ResultClass(call.result) = "NotADirectory" /\ call.result.entries = << >>
      /\ ResultClass(call.result) = "NotADirectory" =>
           KindBefore(call.path) # "absent"

\* A missing path reported as NotFound.
C7_Witness ==
    /\ call.op = "read_directory"
    /\ KindBefore(call.path) = "absent"
    /\ ResultClass(call.result) = "NotFound"

Kept == { n \in ChildrenBefore :
            ChildKindBefore(n) # "file" \/ Matches(n, call.pattern) }

\* C8: read_directory of a directory returns an error and no entries when
\* reading any entry or its metadata fails, and otherwise the whole filtered
\* listing, sorted.
C8_NoPartialListing ==
    call.op = "read_directory" /\ KindBefore(call.path) = "dir" =>
      /\ call.fault.what \in {"entry", "metadata"} =>
           ~call.result.ok /\ call.result.entries = << >>
      /\ call.fault = NoFault =>
           /\ call.result.ok
           /\ Len(call.result.entries) = Cardinality(Kept)
           /\ NamesOf(call.result.entries) = Kept
           /\ Ordered(call.result.entries)

\* The metadata of the second entry fails after the first was collected.
C8_Witness ==
    /\ call.op = "read_directory" /\ KindBefore(call.path) = "dir"
    /\ call.fault = [at |-> 2, what |-> "metadata"]
    /\ call.entries[1] \in Kept
    /\ ~call.result.ok

\* C10: every entry returned with is_dir = FALSE is a regular file whose
\* name matches the pattern.
C10_OnlyMatchingFiles ==
    Listed =>
      \A i \in DOMAIN call.result.entries :
        ~call.result.entries[i].is_dir =>
          /\ start[call.result.entries[i].path].kind = "file"
          /\ Matches(call.result.entries[i].name, call.pattern)

(***************************************************************************)
(* Properties of two invocations requested at the same time                *)
(***************************************************************************)

\* One whole invocation run alone on tree f: [result, fs].
RunAlone(f, c) ==
    IF c.op = "delete_file" THEN delete_file(f, c.path, FALSE)
    ELSE rename_file(f, c.path, c.new_path, FALSE)

\* The two invocations one after the other, `first` first: the result
\* class of each and the final tree.
Serial(f, first) ==
    LET second == 3 - first
        a == RunAlone(f, procs[first])
        b == RunAlone(a.fs, procs[second])
    IN  [class |-> [i \in 1..2 |-> IF i = first THEN ResultClass(a.result)
                                   ELSE ResultClass(b.result)],
         fs |-> b.fs]

BothDone == procs # NoProcs /\ \A i \in 1..2 : procs[i].pc = "done"

ClassOf(i) == ResultClass(procs[i].result)

\* An invocation that has passed its existence check and not yet returned.
PastExistsCheck(i) == procs[i].pc \in {"check_dir", "remove", "rename"}

====
